---- MODULE Spec2Model ----
(***************************************************************************)
(* Checksum and diff engine of core/common/checksums.py.                   *)
(*                                                                         *)
(*   Spec     ChecksumDiff: two resource collections are diffed by         *)
(*            process(), with the memoized snapshot maps as state.         *)
(*   SpecSer  Checksum._serialize / Checksum.generate /                    *)
(*            ChecksumModel._cleanup / generate_checksum(_from_many),      *)
(*            applied to Python values drawn from bounded sets.            *)
(***************************************************************************)
EXTENDS Integers, Sequences, FiniteSets, TLC

VARIABLES
    \* ---- ChecksumDiff instance (checksums.py:169-187) ----
    resources1,                 \* self.resources1: a collection of resources
    resources2,                 \* self.resources2
    verbosity,                  \* self.verbosity
    same,                       \* self.same
    same_smart,                 \* self.same_smart
    changed_smart,              \* self.changed_smart
    changed_standard,           \* self.changed_standard
    result,                     \* self.result
    _resources1_map,            \* memo slots: <<>> is None, <<v>> is v
    _resources1_map_retired,
    _resources2_map,
    _resources2_map_retired,
    _resources1_set,
    _resources1_set_retired,
    _resources2_set,
    _resources2_set_retired,
    _retired,
    call,                       \* the last call on the differ and how it ended
    \* ---- one Python value and the last function applied to it ----
    data,                       \* the value the functions are applied to
    out,                        \* what the last function returned
    op,                         \* the last step taken
    wraps,                      \* how many times data was wrapped in a list
    \* ---- one ChecksumModel instance, its row, the toggle and the task queue ----
    toggle,                     \* Toggle.get('CHECKSUMS_TOGGLE')
    test_mode,                  \* settings.TEST_MODE
    STANDARD_CHECKSUM_KEY,      \* class attribute: <<>> is None, <<k>> is k
    SMART_CHECKSUM_KEY,
    standard_fields,            \* what get_standard_checksum_fields() returns
    smart_fields,               \* what get_smart_checksum_fields() returns
    checksums,                  \* self.checksums: <<>> is None, <<d>> is the dict d
    db_checksums,               \* the checksums column of the instance's row
    tasks,                      \* calculate_checksums tasks waiting on the queue
    mcall,                      \* the last call on the instance and what it did
    \* ---- one ChecksumChangelog over two processed differs ----
    concepts_diff,              \* the differ of the concepts: verbosity, places of the keys
    mappings_diff,              \* the differ of the mappings
    Mapping_objects,            \* the rows of the mappings
    changelog,                  \* ChecksumChangelog.result
    lcall,                      \* the last call on the changelog and how it ended
    \* ---- concurrent writers of one row ----
    writers,                    \* per writer: how it runs, where it is, its instance's checksums
    initial_db                  \* the checksums column before any writer started

diffVars == <<resources1, resources2, verbosity, same, same_smart, changed_smart,
              changed_standard, result, _resources1_map, _resources1_map_retired,
              _resources2_map, _resources2_map_retired, _resources1_set,
              _resources1_set_retired, _resources2_set, _resources2_set_retired,
              _retired, call>>

serVars == <<data, out, op, wraps>>

cacheVars == <<toggle, test_mode, STANDARD_CHECKSUM_KEY, SMART_CHECKSUM_KEY,
               standard_fields, smart_fields, checksums, db_checksums, tasks, mcall>>

logVars == <<concepts_diff, mappings_diff, Mapping_objects, changelog, lcall>>

raceVars == <<writers, initial_db>>

vars == <<diffVars, serVars, cacheVars, logVars, raceVars>>

(***************************************************************************)
(* Bounds                                                                  *)
(***************************************************************************)
\* number of identity keys the two collections draw from
NKeys == 2

\* integers range over 0..MaxInt
MaxInt == 1

\* top-level lists hold up to MaxListLen elements
MaxListLen == 2

\* a value is wrapped in a one-element list up to MaxWrap times
MaxWrap == 2

\* calculate_checksums tasks that may wait on the queue at once
MaxTasks == 2

KeyNames == <<"a", "b", "c", "d">>

Keys == {KeyNames[i] : i \in 1..NKeys}

KeyIdx(k) == CHOOSE i \in 1..NKeys : KeyNames[i] = k

None == <<>>

Some(v) == <<v>>

(***************************************************************************)
(* Resources: what ChecksumDiff reads of a resource is its identity        *)
(* (mnemonic), its retired flag, its checksums and its database id.        *)
(* The identity is unique within a collection.                             *)
(***************************************************************************)
Resource(side, k, ret, std, smart) ==
    [mnemonic |-> k, id |-> (side - 1) * NKeys + KeyIdx(k), retired |-> ret,
     checksums |-> [standard |-> std, smart |-> smart]]

\* Comparison looks only at whether the two sides' digests of a key are equal,
\* so side 1 carries one digest and side 2 ranges over two.
Absent == [present |-> FALSE, retired |-> FALSE, std |-> "h1", smart |-> "h1"]

Side1Options ==
    {Absent} \cup [present : {TRUE}, retired : BOOLEAN, std : {"h1"}, smart : {"h1"}]

Side2Options ==
    {Absent} \cup [present : {TRUE}, retired : BOOLEAN, std : {"h1", "h2"},
                   smart : {"h1", "h2"}]

Collection(side, f) ==
    {Resource(side, k, f[k].retired, f[k].std, f[k].smart) :
        k \in {x \in Keys : f[x].present}}

\* resources.filter(retired=...)
filter(resources, ret) == {r \in resources : r.retired = ret}

(***************************************************************************)
(* ChecksumDiff                                                            *)
(***************************************************************************)
_get_resource_map(resources) ==
    [k \in {r.mnemonic : r \in resources} |->
        LET r == CHOOSE x \in resources : x.mnemonic = k
        IN  [checksums |-> r.checksums, id |-> r.id]]

get_resources_map(resources) ==
    [active  |-> _get_resource_map(filter(resources, FALSE)),
     retired |-> _get_resource_map(filter(resources, FALSE))]

\* The memoizing properties: the value each returns in the current state.
resources1_map ==
    IF _resources1_map # None THEN _resources1_map[1]
    ELSE get_resources_map(resources1).active

resources1_map_retired ==
    IF _resources1_map_retired # None THEN _resources1_map_retired[1]
    ELSE get_resources_map(resources1).retired

resources2_map ==
    IF _resources2_map # None THEN _resources2_map[1]
    ELSE get_resources_map(resources2).active

resources2_map_retired ==
    IF _resources2_map_retired # None THEN _resources2_map_retired[1]
    ELSE get_resources_map(resources2).retired

resources1_set ==
    IF _resources1_set # None THEN _resources1_set[1] ELSE DOMAIN resources1_map

resources1_set_retired ==
    IF _resources1_set_retired # None THEN _resources1_set_retired[1]
    ELSE DOMAIN resources1_map_retired

resources2_set ==
    IF _resources2_set # None THEN _resources2_set[1] ELSE DOMAIN resources2_map

resources2_set_retired ==
    IF _resources2_set_retired # None THEN _resources2_set_retired[1]
    ELSE DOMAIN resources2_map_retired

new == [key \in resources1_set \ resources2_set |-> resources1_map[key]]

retired ==
    IF _retired # None THEN _retired[1]
    ELSE [key \in resources2_set_retired \ resources1_set_retired |->
            resources2_map_retired[key]]

deleted_unfiltered ==
    [key \in resources2_set \ resources1_set |-> resources2_map[key]]

deleted ==
    [key \in {k \in resources2_set \ resources1_set : k \notin DOMAIN retired} |->
        resources2_map[key]]

common == [key \in resources1_set \cap resources2_set |-> resources1_map[key]]

is_verbose == verbosity >= 1

is_very_verbose == verbosity = 2

include_same == is_verbose

EmptyDict == [k \in {} |-> {}]

\* d[key] = info
Put(d, key, info) == (key :> info) @@ d

\* One pass of the loop body of populate_diff_from_common for `key`. acc holds
\* the four dicts and whether a checksums lookup raised KeyError.
populate_key_lenient(acc, key) ==
    LET info == common[key]
        checksums1 == resources1_map[key].checksums
        checksums2 == resources2_map[key].checksums
        differ(k) == \/ k \notin DOMAIN checksums1
                     \/ k \notin DOMAIN checksums2
                     \/ checksums1[k] # checksums2[k]
        acc1 == IF differ("standard")
                THEN [acc EXCEPT !.changed_standard = Put(@, key, info)]
                ELSE IF include_same
                THEN [acc EXCEPT !.same = Put(@, key, info)]
                ELSE acc
    IN  IF differ("smart")
        THEN [acc1 EXCEPT !.changed_smart = Put(@, key, info)]
        ELSE IF include_same
        THEN [acc1 EXCEPT !.same_smart = Put(@, key, info)]
        ELSE acc1

populate_key_chained(acc, key) ==
    LET info == common[key]
        checksums1 == resources1_map[key].checksums
        checksums2 == resources2_map[key].checksums
    IN  IF checksums1["standard"] # checksums2["standard"]
        THEN [acc EXCEPT !.changed_standard = Put(@, key, info)]
        ELSE IF checksums1["smart"] # checksums2["smart"]
        THEN [acc EXCEPT !.changed_smart = Put(@, key, info),
                         !.same = IF include_same THEN Put(@, key, info) ELSE @]
        ELSE IF include_same
        THEN [acc EXCEPT !.same = Put(@, key, info), !.same_smart = Put(@, key, info)]
        ELSE acc

populate_key(acc, key) ==
    LET info == common[key]
        checksums1 == resources1_map[key].checksums
        checksums2 == resources2_map[key].checksums
        has(k) == k \in DOMAIN checksums1 /\ k \in DOMAIN checksums2
        acc1 == IF ~has("standard") THEN [acc EXCEPT !.raised = TRUE]
                ELSE IF checksums1["standard"] # checksums2["standard"]
                THEN [acc EXCEPT !.changed_standard = Put(@, key, info)]
                ELSE IF include_same
                THEN [acc EXCEPT !.same = Put(@, key, info)]
                ELSE acc
    IN  IF acc1.raised THEN acc1
        ELSE IF ~has("smart") THEN [acc1 EXCEPT !.raised = TRUE]
        ELSE IF checksums1["smart"] # checksums2["smart"]
        THEN [acc1 EXCEPT !.changed_smart = Put(@, key, info)]
        ELSE IF include_same
        THEN [acc1 EXCEPT !.same_smart = Put(@, key, info)]
        ELSE acc1

\* for key, info in common.items(), in the order `order`; the loop ends at the
\* first KeyError.
RECURSIVE populate_diff_from_common(_, _)
populate_diff_from_common(acc, order) ==
    IF order = <<>> \/ acc.raised THEN acc
    ELSE populate_diff_from_common(populate_key(acc, Head(order)), Tail(order))

\* The orders in which a dict built from a set may be iterated.
Orders(S) ==
    {o \in [1..Cardinality(S) -> S] : \A i, j \in DOMAIN o : i # j => o[i] # o[j]}

\* A count, or at verbosity 2 for a non-empty category the count and the keys
\* (listed: the struct is a dict, not a bare count).
get_struct_listed_when_verbose(values) ==
    LET total == Cardinality(DOMAIN values)
    IN  IF is_verbose /\ DOMAIN values # {}
        THEN [total |-> total, listed |-> TRUE, mnemonic |-> DOMAIN values]
        ELSE [total |-> total, listed |-> FALSE, mnemonic |-> {}]

\* ChecksumDiff.get_struct
get_struct(values) ==
    LET total == Cardinality(DOMAIN values)
    IN  IF is_very_verbose /\ DOMAIN values # {}
        THEN [total |-> total, listed |-> TRUE, mnemonic |-> DOMAIN values]
        ELSE [total |-> total, listed |-> FALSE, mnemonic |-> {}]

prepare(acc) ==
    LET base == [k \in {"new", "removed", "retired", "changed", "smart_changed"} |->
                    CASE k = "new" -> get_struct(new)
                      [] k = "removed" -> get_struct(deleted)
                      [] k = "retired" -> get_struct(retired)
                      [] k = "changed" -> get_struct(acc.changed_standard)
                      [] OTHER -> get_struct(acc.changed_smart)]
    IN  IF include_same
        THEN [k \in {"same", "smart_same"} |->
                IF k = "same" THEN get_struct(acc.same) ELSE get_struct(acc.same_smart)]
             @@ base
        ELSE base

(***************************************************************************)
(* Python values. Every value is a record of the same shape, so that any   *)
(* two can be compared: t is the type, and the content is in b (bool),     *)
(* n (int), c (the characters of a str), e (the elements of a list) or     *)
(* p (the (key, value) pairs of a dict, in insertion order).               *)
(***************************************************************************)
PyNone == [t |-> "none", b |-> FALSE, n |-> 0, c |-> <<>>, e |-> <<>>, p |-> <<>>]

PyBool(b) == [PyNone EXCEPT !.t = "bool", !.b = b]

PyInt(n) == [PyNone EXCEPT !.t = "int", !.n = n]

PyStr(chars) == [PyNone EXCEPT !.t = "str", !.c = chars]

PyList(elems) == [PyNone EXCEPT !.t = "list", !.e = elems]

PyDict(pairs) == [PyNone EXCEPT !.t = "dict", !.p = pairs]

Pair(key, value) == [k |-> key, v |-> value]

isinstance(obj, type) == obj.t = type

\* bool(value)
Truthy(value) ==
    CASE value.t = "none" -> FALSE
      [] value.t = "bool" -> value.b
      [] value.t = "int" -> value.n # 0
      [] value.t = "str" -> Len(value.c) > 0
      [] value.t = "list" -> Len(value.e) > 0
      [] value.t = "object" -> TRUE
      [] OTHER -> Len(value.p) > 0

\* The characters the values and their serializations are written in, in
\* code point order.
Alphabet ==
    <<" ", "\"", "#", ",", "-", "0", "1", "2", "3", "4", "5", "6", "7", "8", "9",
      "[", "]", "_", "a", "b", "c", "d", "e", "f", "g", "h", "i", "j", "k", "l",
      "m", "n", "o", "p", "q", "r", "s", "t", "u", "v", "w", "x", "y", "z", "{", "}">>

CharRank(c) == CHOOSE i \in 1..Len(Alphabet) : Alphabet[i] = c

RECURSIVE Join(_, _)
Join(parts, sep) ==
    IF parts = <<>> THEN <<>>
    ELSE IF Len(parts) = 1 THEN parts[1]
    ELSE parts[1] \o sep \o Join(Tail(parts), sep)

RECURSIVE IntChars(_)
IntChars(n) ==
    IF n < 0 THEN <<"-">> \o IntChars(-n)
    ELSE IF n < 10 THEN <<Alphabet[CharRank("0") + n]>>
    ELSE IntChars(n \div 10) \o <<Alphabet[CharRank("0") + (n % 10)]>>

NULL_ == <<"n", "u", "l", "l">>

TRUE_ == <<"t", "r", "u", "e">>

FALSE_ == <<"f", "a", "l", "s", "e">>

K_retired == <<"r", "e", "t", "i", "r", "e", "d">>

K_is_active == <<"i", "s", "_", "a", "c", "t", "i", "v", "e">>

K_extras == <<"e", "x", "t", "r", "a", "s">>

K_name == <<"n", "a", "m", "e">>

K_note == <<"n", "o", "t", "e">>

K_internal == <<"_", "_", "x">>

Quoted(chars) == <<"\"">> \o chars \o <<"\"">>

\* json.dumps of a scalar (the strings here hold no character that JSON escapes)
json_dumps(obj) ==
    CASE obj.t = "none" -> NULL_
      [] obj.t = "bool" -> IF obj.b THEN TRUE_ ELSE FALSE_
      [] obj.t = "int" -> IntChars(obj.n)
      [] OTHER -> Quoted(obj.c)

\* json.dumps of a list of str: '["a", "b"]'
json_dumps_keys(keys) ==
    <<"[">> \o Join([i \in 1..Len(keys) |-> Quoted(keys[i])], <<",", " ">>) \o <<"]">>

\* Lexicographic order on sequences of naturals
RECURSIVE LexLess(_, _)
LexLess(a, b) ==
    IF b = <<>> THEN FALSE
    ELSE IF a = <<>> THEN TRUE
    ELSE IF a[1] # b[1] THEN a[1] < b[1]
    ELSE LexLess(Tail(a), Tail(b))

Ranks(chars) == [i \in 1..Len(chars) |-> CharRank(chars[i])]

TypeRank(t) ==
    CASE t = "none" -> 0 [] t = "bool" -> 1 [] t = "int" -> 2 [] t = "str" -> 3
      [] t = "list" -> 4 [] OTHER -> 5

RECURSIVE _serialize(_), generic_sort(_)

\* generic_sort's total order over mixed types: by type, then by value; lists
\* and dicts by their canonical serialization.
GenericLess(x, y) ==
    IF x.t # y.t THEN TypeRank(x.t) < TypeRank(y.t)
    ELSE CASE x.t = "none" -> FALSE
           [] x.t = "bool" -> ~x.b /\ y.b
           [] x.t = "int" -> x.n < y.n
           [] x.t = "str" -> LexLess(Ranks(x.c), Ranks(y.c))
           [] OTHER -> LexLess(Ranks(_serialize(x)), Ranks(_serialize(y)))

\* insert x into the sorted sequence s, after the elements not greater (stable)
RECURSIVE Insert(_, _)
Insert(s, x) ==
    IF s = <<>> THEN <<x>>
    ELSE IF GenericLess(x, Head(s)) THEN <<x>> \o s
    ELSE <<Head(s)>> \o Insert(Tail(s), x)

generic_sort(list) ==
    IF Len(list) <= 1 THEN list
    ELSE Insert(generic_sort(SubSeq(list, 1, Len(list) - 1)), list[Len(list)])

\* obj.keys() and obj[key]
dict_keys(obj) == [i \in 1..Len(obj.p) |-> PyStr(obj.p[i].k)]

dict_get(obj, key) == (CHOOSE q \in {obj.p[i] : i \in 1..Len(obj.p)} : q.k = key).v

sorted_keys_unsorted(obj) == [i \in 1..Len(obj.p) |-> obj.p[i].k]

\* keys = generic_sort(obj.keys())
sorted_keys(obj) ==
    LET keys == generic_sort(dict_keys(obj))
    IN  [i \in 1..Len(keys) |-> keys[i].c]

dict_header_no_keys(keys) == <<"{">>

\* acc = f"{{{json.dumps(keys)}"
dict_header(keys) == <<"{">> \o json_dumps_keys(keys)

\* Checksum._serialize
_serialize(obj0) ==
    LET obj == IF isinstance(obj0, "list") /\ Len(obj0.e) = 1 THEN obj0.e[1] ELSE obj0
    IN  IF isinstance(obj, "list")
        THEN LET sorted == generic_sort(obj.e)
             IN  <<"[">> \o Join([i \in 1..Len(sorted) |-> _serialize(sorted[i])], <<",">>)
                        \o <<"]">>
        ELSE IF isinstance(obj, "dict")
        THEN LET keys == sorted_keys(obj)
             IN  dict_header(keys)
                 \o Join([i \in 1..Len(keys) |->
                            _serialize(dict_get(obj, keys[i])) \o <<",">>], <<>>)
                 \o <<"}">>
        ELSE json_dumps(obj)

\* hashlib's hexdigest of the serialization: an injective image of it
hexdigest(serialized) == <<"#">> \o serialized

\* Checksum.generate
generate(obj) == PyStr(hexdigest(_serialize(obj)))

startswith__(key) == Len(key) >= 2 /\ key[1] = "_" /\ key[2] = "_"

\* ChecksumModel._cleanup
_cleanup(fields) ==
    IF isinstance(fields, "dict")
    THEN LET dropped(f) ==
                 \/ f.v.t = "none"
                 \/ f.k = K_retired /\ ~Truthy(f.v)
                 \/ f.k = K_is_active /\ Truthy(f.v)
                 \/ f.k = K_extras /\ ~Truthy(f.v)
             kept(f) == ~dropped(f)
             public(q) == ~startswith__(q.k)
             clean(f) ==
                 IF /\ f.k = K_extras
                    /\ isinstance(f.v, "dict")
                    /\ \E i \in 1..Len(f.v.p) : startswith__(f.v.p[i].k)
                 THEN Pair(f.k, PyDict(SelectSeq(f.v.p, public)))
                 ELSE f
             pairs == SelectSeq(fields.p, kept)
         IN  PyDict([i \in 1..Len(pairs) |-> clean(pairs[i])])
    ELSE fields

\* ChecksumModel.generate_checksum
generate_checksum(d) == generate(_cleanup(d))

generate_checksum_from_many_no_unwrap(d) ==
    LET checksums_ == IF isinstance(d, "list")
                      THEN [i \in 1..Len(d.e) |-> generate(_cleanup(d.e[i]))]
                      ELSE <<generate(_cleanup(d))>>
    IN  generate(PyList(checksums_))

\* ChecksumModel.generate_checksum_from_many
generate_checksum_from_many(d) ==
    LET checksums_ == IF isinstance(d, "list")
                      THEN [i \in 1..Len(d.e) |-> generate(_cleanup(d.e[i]))]
                      ELSE <<generate(_cleanup(d))>>
    IN  IF Len(checksums_) = 1 THEN checksums_[1] ELSE generate(PyList(checksums_))

(***************************************************************************)
(* The values the functions are applied to                                 *)
(***************************************************************************)
StrA == PyStr(<<"a">>)

Scalars ==
    {PyNone, PyBool(TRUE), PyBool(FALSE), PyStr(<<>>), StrA}
        \cup {PyInt(n) : n \in 0..MaxInt}

Optional(key, values) == {<<>>} \cup {<<Pair(key, value)>> : value \in values}

NameOptions ==
    Optional(K_name, {PyNone, StrA, PyBool(TRUE), PyList(<<StrA>>),
                      PyList(<<PyInt(0), PyInt(1)>>), PyList(<<PyInt(1), PyInt(0)>>)})

RetiredOptions == Optional(K_retired, {PyBool(FALSE), PyBool(TRUE)})

ActiveOptions == Optional(K_is_active, {PyBool(TRUE), PyBool(FALSE)})

ExtrasOptions ==
    Optional(K_extras, {PyDict(<<>>),
                        PyDict(<<Pair(K_internal, StrA)>>),
                        PyDict(<<Pair(K_note, StrA)>>),
                        PyDict(<<Pair(K_note, StrA), Pair(K_internal, StrA)>>)})

\* field mappings as get_checksum_fields builds them
FieldMappings ==
    {PyDict(n \o r \o a \o e) :
        n \in NameOptions, r \in RetiredOptions, a \in ActiveOptions, e \in ExtrasOptions}

ListElems ==
    {PyInt(1), StrA,
     PyDict(<<Pair(K_name, StrA)>>),
     PyDict(<<Pair(K_name, StrA), Pair(K_retired, PyBool(FALSE))>>),
     PyDict(<<Pair(K_note, StrA), Pair(K_name, PyInt(1))>>)}

Lists == {PyList(elems) : elems \in UNION {[1..n -> ListElems] : n \in 0..MaxListLen}}

Inputs == Scalars \cup FieldMappings \cup Lists

\* A resource whose checksums hold only the keys in `keys`.
PartialResource(side, k, ret, keys, digest) ==
    [mnemonic |-> k, id |-> (side - 1) * NKeys + KeyIdx(k), retired |-> ret,
     checksums |-> [x \in keys |-> digest]]

PartialAbsent == [present |-> FALSE, retired |-> FALSE, keys |-> {}]

Partial1Options ==
    {PartialAbsent,
     [present |-> TRUE, retired |-> FALSE, keys |-> {"standard", "smart"}],
     [present |-> TRUE, retired |-> FALSE, keys |-> {"standard"}],
     [present |-> TRUE, retired |-> TRUE, keys |-> {"smart"}]}

Partial2Options ==
    {PartialAbsent,
     [present |-> TRUE, retired |-> FALSE, keys |-> {"standard", "smart"}],
     [present |-> TRUE, retired |-> FALSE, keys |-> {"smart"}],
     [present |-> TRUE, retired |-> FALSE, keys |-> {"standard"}],
     [present |-> TRUE, retired |-> TRUE, keys |-> {"standard", "smart"}],
     [present |-> TRUE, retired |-> TRUE, keys |-> {}]}

PartialCollection(side, f) ==
    {PartialResource(side, k, f[k].retired, f[k].keys, IF side = 1 THEN "h1" ELSE "h2") :
        k \in {x \in Keys : f[x].present}}

\* a differ over collections in which resources may lack checksum keys
PartialInit ==
    /\ \E f \in [Keys -> Partial1Options] : resources1 = PartialCollection(1, f)
    /\ \E f \in [Keys -> Partial2Options] : resources2 = PartialCollection(2, f)
    /\ verbosity \in {0, 1, 2}
    /\ same = EmptyDict
    /\ same_smart = EmptyDict
    /\ changed_smart = EmptyDict
    /\ changed_standard = EmptyDict
    /\ result = EmptyDict
    /\ _resources1_map = None
    /\ _resources1_map_retired = None
    /\ _resources2_map = None
    /\ _resources2_map_retired = None
    /\ _resources1_set = None
    /\ _resources1_set_retired = None
    /\ _resources2_set = None
    /\ _resources2_set_retired = None
    /\ _retired = None
    /\ call = [name |-> "init", refresh |-> FALSE, again |-> FALSE, outcome |-> "none"]

DiffInit ==
    /\ \E f \in [Keys -> Side1Options] : resources1 = Collection(1, f)
    /\ \E f \in [Keys -> Side2Options] : resources2 = Collection(2, f)
    /\ verbosity \in {0, 1, 2}
    /\ same = EmptyDict
    /\ same_smart = EmptyDict
    /\ changed_smart = EmptyDict
    /\ changed_standard = EmptyDict
    /\ result = EmptyDict
    /\ _resources1_map = None
    /\ _resources1_map_retired = None
    /\ _resources2_map = None
    /\ _resources2_map_retired = None
    /\ _resources1_set = None
    /\ _resources1_set_retired = None
    /\ _resources2_set = None
    /\ _resources2_set_retired = None
    /\ _retired = None
    /\ call = [name |-> "init", refresh |-> FALSE, again |-> FALSE, outcome |-> "none"]

SerIdle ==
    /\ data = PyNone
    /\ out = PyNone
    /\ op = "idle"
    /\ wraps = 0

process_always_recomputes(refresh) ==
    LET result0 == EmptyDict
    IN  IF DOMAIN result0 # {}
        THEN /\ call' = [name |-> "process", refresh |-> refresh, again |-> TRUE,
                          outcome |-> "cached"]
             /\ UNCHANGED <<resources1, resources2, verbosity, same, same_smart,
                            changed_smart, changed_standard, result, _resources1_map,
                            _resources1_map_retired, _resources2_map,
                            _resources2_map_retired, _resources1_set,
                            _resources1_set_retired, _resources2_set,
                            _resources2_set_retired, _retired>>
        ELSE \E order \in Orders(DOMAIN common) :
             LET acc == populate_diff_from_common(
                            [changed_standard |-> changed_standard, same |-> same,
                             changed_smart |-> changed_smart, same_smart |-> same_smart,
                             raised |-> FALSE], order)
             IN  /\ _resources1_map' = Some(resources1_map)
                 /\ _resources1_map_retired' = Some(resources1_map_retired)
                 /\ _resources2_map' = Some(resources2_map)
                 /\ _resources2_map_retired' = Some(resources2_map_retired)
                 /\ _resources1_set' = Some(resources1_set)
                 /\ _resources2_set' = Some(resources2_set)
                 /\ changed_standard' = acc.changed_standard
                 /\ same' = acc.same
                 /\ changed_smart' = acc.changed_smart
                 /\ same_smart' = acc.same_smart
                 /\ IF acc.raised
                    THEN /\ result' = result0
                         /\ call' = [name |-> "process", refresh |-> refresh,
                                     again |-> DOMAIN result # {},
                                     outcome |-> "raised"]
                         /\ UNCHANGED <<_resources1_set_retired,
                                        _resources2_set_retired, _retired>>
                    ELSE /\ result' = prepare(acc)
                         /\ _resources1_set_retired' = Some(resources1_set_retired)
                         /\ _resources2_set_retired' = Some(resources2_set_retired)
                         /\ _retired' = Some(retired)
                         /\ call' = [name |-> "process", refresh |-> refresh,
                                     again |-> DOMAIN result # {},
                                     outcome |-> "computed"]
                 /\ UNCHANGED <<resources1, resources2, verbosity>>

\* ChecksumDiff.process(refresh)
process(refresh) ==
    LET result0 == IF refresh THEN EmptyDict ELSE result
    IN  IF DOMAIN result0 # {}
        THEN /\ call' = [name |-> "process", refresh |-> refresh, again |-> TRUE,
                          outcome |-> "cached"]
             /\ UNCHANGED <<resources1, resources2, verbosity, same, same_smart,
                            changed_smart, changed_standard, result, _resources1_map,
                            _resources1_map_retired, _resources2_map,
                            _resources2_map_retired, _resources1_set,
                            _resources1_set_retired, _resources2_set,
                            _resources2_set_retired, _retired>>
        ELSE \E order \in Orders(DOMAIN common) :
             LET acc == populate_diff_from_common(
                            [changed_standard |-> changed_standard, same |-> same,
                             changed_smart |-> changed_smart, same_smart |-> same_smart,
                             raised |-> FALSE], order)
             IN  /\ _resources1_map' = Some(resources1_map)
                 /\ _resources1_map_retired' = Some(resources1_map_retired)
                 /\ _resources2_map' = Some(resources2_map)
                 /\ _resources2_map_retired' = Some(resources2_map_retired)
                 /\ _resources1_set' = Some(resources1_set)
                 /\ _resources2_set' = Some(resources2_set)
                 /\ changed_standard' = acc.changed_standard
                 /\ same' = acc.same
                 /\ changed_smart' = acc.changed_smart
                 /\ same_smart' = acc.same_smart
                 /\ IF acc.raised
                    THEN /\ result' = result0
                         /\ call' = [name |-> "process", refresh |-> refresh,
                                     again |-> DOMAIN result # {},
                                     outcome |-> "raised"]
                         /\ UNCHANGED <<_resources1_set_retired,
                                        _resources2_set_retired, _retired>>
                    ELSE /\ result' = prepare(acc)
                         /\ _resources1_set_retired' = Some(resources1_set_retired)
                         /\ _resources2_set_retired' = Some(resources2_set_retired)
                         /\ _retired' = Some(retired)
                         /\ call' = [name |-> "process", refresh |-> refresh,
                                     again |-> DOMAIN result # {},
                                     outcome |-> "computed"]
                 /\ UNCHANGED <<resources1, resources2, verbosity>>

Process == \E refresh \in BOOLEAN : process(refresh) /\ UNCHANGED <<serVars, cacheVars, logVars, raceVars>>

DiffIdle ==
    /\ resources1 = {}
    /\ resources2 = {}
    /\ verbosity = 0
    /\ same = EmptyDict
    /\ same_smart = EmptyDict
    /\ changed_smart = EmptyDict
    /\ changed_standard = EmptyDict
    /\ result = EmptyDict
    /\ _resources1_map = None
    /\ _resources1_map_retired = None
    /\ _resources2_map = None
    /\ _resources2_map_retired = None
    /\ _resources1_set = None
    /\ _resources1_set_retired = None
    /\ _resources2_set = None
    /\ _resources2_set_retired = None
    /\ _retired = None
    /\ call = [name |-> "idle", refresh |-> FALSE, again |-> FALSE, outcome |-> "none"]

SerInit ==
    /\ data \in Inputs
    /\ out = PyNone
    /\ op = "init"
    /\ wraps = 0

\* data = [data]
Wrap ==
    /\ wraps < MaxWrap
    /\ data' = PyList(<<data>>)
    /\ wraps' = wraps + 1
    /\ out' = PyNone
    /\ op' = "wrap"
    /\ UNCHANGED <<diffVars, cacheVars, logVars, raceVars>>

\* data = ChecksumModel._cleanup(data)
Cleanup ==
    /\ data' = _cleanup(data)
    /\ out' = data'
    /\ op' = "_cleanup"
    /\ UNCHANGED <<wraps, diffVars, cacheVars, logVars, raceVars>>

Serialize ==
    /\ out' = PyStr(_serialize(data))
    /\ op' = "_serialize"
    /\ UNCHANGED <<data, wraps, diffVars, cacheVars, logVars, raceVars>>

Generate ==
    /\ out' = generate(data)
    /\ op' = "generate"
    /\ UNCHANGED <<data, wraps, diffVars, cacheVars, logVars, raceVars>>

GenerateChecksum ==
    /\ out' = generate_checksum(data)
    /\ op' = "generate_checksum"
    /\ UNCHANGED <<data, wraps, diffVars, cacheVars, logVars, raceVars>>

GenerateChecksumFromMany ==
    /\ out' = generate_checksum_from_many(data)
    /\ op' = "generate_checksum_from_many"
    /\ UNCHANGED <<data, wraps, diffVars, cacheVars, logVars, raceVars>>

SerNext ==
    \/ Wrap
    \/ Cleanup
    \/ Serialize
    \/ Generate
    \/ GenerateChecksum
    \/ GenerateChecksumFromMany

(***************************************************************************)
(* ChecksumModel: the cached checksums of one instance. A dict of          *)
(* checksums is a function from its keys to Python values; an attribute    *)
(* that may be None is <<>> for None and <<v>> for the value v.            *)
(***************************************************************************)
ChecksumKeys == {"standard", "smart"}

\* a digest left in the cache by an earlier computation over other fields
OldDigest == PyStr(<<"#", "o", "l", "d">>)

\* what a call hands back: None, a dict of checksums, or one digest
RetNone == [kind |-> "none", d |-> EmptyDict, v |-> PyNone]

RetDict(d) == [kind |-> "dict", d |-> d, v |-> PyNone]

RetValue(v) == [kind |-> IF v = PyNone THEN "none" ELSE "value", d |-> EmptyDict, v |-> v]

\* truth value of self.checksums
checksums_truthy(cs) == cs # None /\ DOMAIN cs[1] # {}

has_standard_checksum(cs) ==
    IF STANDARD_CHECKSUM_KEY # None THEN STANDARD_CHECKSUM_KEY[1] \in DOMAIN cs[1] ELSE TRUE

has_smart_checksum(cs) ==
    IF SMART_CHECKSUM_KEY # None THEN SMART_CHECKSUM_KEY[1] \in DOMAIN cs[1] ELSE TRUE

has_all_checksums(cs) == has_standard_checksum(cs) /\ has_smart_checksum(cs)

\* a value of a type json.dumps has no encoding for
PyObject == [PyNone EXCEPT !.t = "object"]

\* json.dumps does not raise TypeError anywhere in _serialize(obj)
RECURSIVE serializable(_)
serializable(obj) ==
    CASE isinstance(obj, "list") -> \A i \in 1..Len(obj.e) : serializable(obj.e[i])
      [] isinstance(obj, "dict") -> \A i \in 1..Len(obj.p) : serializable(obj.p[i].v)
      [] isinstance(obj, "object") -> FALSE
      [] OTHER -> TRUE

\* _calculate_standard_checksum() or _calculate_smart_checksum() raises
standard_raises == ~serializable(_cleanup(standard_fields))

smart_raises == Truthy(smart_fields) /\ ~serializable(_cleanup(smart_fields))

\* get_all_checksums() raises: a configured kind cannot be computed
calculation_raises ==
    \/ STANDARD_CHECKSUM_KEY # None /\ standard_raises
    \/ SMART_CHECKSUM_KEY # None /\ smart_raises

_calculate_standard_checksum == generate_checksum(standard_fields)

_calculate_smart_checksum ==
    IF Truthy(smart_fields) THEN generate_checksum(smart_fields) ELSE PyNone

\* the dict get_all_checksums() builds when the toggle is on
all_checksums ==
    LET configured == {k \in ChecksumKeys :
                          \/ STANDARD_CHECKSUM_KEY = Some(k)
                          \/ SMART_CHECKSUM_KEY = Some(k)}
    IN  [k \in configured |->
            IF STANDARD_CHECKSUM_KEY = Some(k) THEN _calculate_standard_checksum
            ELSE _calculate_smart_checksum]

get_all_checksums == IF toggle THEN Some(all_checksums) ELSE None

_calculate_checksums == get_all_checksums

\* What one call does to the instance, its row and the queue:
\* cs, db, q are self.checksums, the row's column and the queue afterwards,
\* computed, saved and enqueued count the recomputations, the writes of the
\* column and the tasks put on the queue.
Effect(cs, db, q, ret, computed, saved, enqueued) ==
    [cs |-> cs, db |-> db, q |-> q, ret |-> ret, raised |-> FALSE,
     computed |-> computed, saved |-> saved, enqueued |-> enqueued]

NoEffect(ret) == Effect(checksums, db_checksums, tasks, ret, 0, 0, 0)

\* the call ends with the exception of a computation, having changed nothing
Raises == [NoEffect(RetNone) EXCEPT !.raised = TRUE]

set_checksums_no_save ==
    IF toggle
    THEN IF calculation_raises THEN Raises
         ELSE Effect(_calculate_checksums, db_checksums, tasks, RetNone, 1, 0, 0)
    ELSE NoEffect(RetNone)

\* the checksums are stored kind by kind, the standard one before the smart
\* one is computed
set_checksums_kind_by_kind ==
    IF toggle
    THEN IF calculation_raises
         THEN IF STANDARD_CHECKSUM_KEY # None /\ ~standard_raises
              THEN LET cs == Some([k \in {STANDARD_CHECKSUM_KEY[1]} |->
                                     _calculate_standard_checksum])
                   IN  [Raises EXCEPT !.cs = cs, !.db = cs]
              ELSE Raises
         ELSE Effect(_calculate_checksums, _calculate_checksums, tasks, RetNone, 1, 1, 0)
    ELSE NoEffect(RetNone)

\* ChecksumModel.set_checksums: the right-hand side is computed in full
\* before self.checksums is assigned and saved
set_checksums ==
    IF toggle
    THEN IF calculation_raises THEN Raises
         ELSE Effect(_calculate_checksums, _calculate_checksums, tasks, RetNone, 1, 1, 0)
    ELSE NoEffect(RetNone)

\* calculate_checksums(type name, id): the task recomputes and saves the
\* checksums of the row it is given
calculate_checksums(db) ==
    IF toggle /\ ~calculation_raises THEN _calculate_checksums ELSE db

queue_checksum_calculation_inline ==
    LET db == calculate_checksums(db_checksums)
    IN  IF toggle /\ calculation_raises THEN Raises
        ELSE Effect(db, db, tasks, RetNone, 1, 1, 0)

\* ChecksumModel.queue_checksum_calculation
queue_checksum_calculation ==
    IF test_mode
    THEN LET db == calculate_checksums(db_checksums)
         IN  IF toggle /\ calculation_raises THEN Raises
             ELSE Effect(db, db, tasks, RetNone, 1, 1, 0)
    ELSE Effect(checksums, db_checksums, Append(tasks, <<"ChecksumModel", 1>>),
                RetNone, 0, 0, 1)

checksums_or_empty(cs) == IF checksums_truthy(cs) THEN cs[1] ELSE EmptyDict

get_checksums_no_cache(queue, recalculate) ==
    IF toggle
    THEN IF queue
         THEN LET e == queue_checksum_calculation
              IN  IF e.raised THEN e
                  ELSE [e EXCEPT !.ret = RetDict(checksums_or_empty(e.cs))]
         ELSE LET e == set_checksums
              IN  IF e.raised THEN e
                  ELSE [e EXCEPT !.ret = RetDict(e.cs[1])]
    ELSE NoEffect(RetNone)

\* ChecksumModel.get_checksums
get_checksums(queue, recalculate) ==
    IF toggle
    THEN IF ~recalculate /\ checksums_truthy(checksums) /\ has_all_checksums(checksums)
         THEN NoEffect(RetDict(checksums[1]))
         ELSE IF queue
              THEN LET e == queue_checksum_calculation
                   IN  IF e.raised THEN e
                       ELSE [e EXCEPT !.ret = RetDict(checksums_or_empty(e.cs))]
              ELSE LET e == set_checksums
                   IN  IF e.raised THEN e
                       ELSE [e EXCEPT !.ret = RetDict(e.cs[1])]
    ELSE NoEffect(RetNone)

\* get(self, 'checksums.<STANDARD_CHECKSUM_KEY>'), and dict.get of that key
standard_of(cs) ==
    IF cs # None /\ STANDARD_CHECKSUM_KEY # None
       /\ STANDARD_CHECKSUM_KEY[1] \in DOMAIN cs[1]
    THEN cs[1][STANDARD_CHECKSUM_KEY[1]]
    ELSE PyNone

checksum_untoggled ==
    IF Truthy(standard_of(checksums))
    THEN NoEffect(RetValue(standard_of(checksums)))
    ELSE LET e == get_checksums(FALSE, FALSE)
         IN  IF e.raised THEN e
             ELSE [e EXCEPT !.ret = RetValue(standard_of(e.cs))]

\* ChecksumModel.checksum
checksum ==
    IF toggle
    THEN IF Truthy(standard_of(checksums))
         THEN NoEffect(RetValue(standard_of(checksums)))
         ELSE LET e == get_checksums(FALSE, FALSE)
              IN  IF e.raised THEN e
                  ELSE [e EXCEPT !.ret = RetValue(standard_of(e.cs))]
    ELSE NoEffect(RetNone)

\* the field mappings the instance may hand to generate_checksum
StandardFieldOptions ==
    {PyDict(<<Pair(K_name, StrA)>>),
     PyDict(<<Pair(K_name, StrA), Pair(K_retired, PyBool(TRUE))>>),
     PyDict(<<Pair(K_name, PyObject)>>)}

SmartFieldOptions ==
    {PyDict(<<>>), PyDict(<<Pair(K_name, StrA)>>), PyDict(<<Pair(K_note, PyObject)>>)}

\* the checksum kinds a resource type may configure
KeyOptions ==
    {<<Some("standard"), Some("smart")>>, <<Some("standard"), None>>,
     <<None, Some("smart")>>}

\* what the checksums column may hold: null, or a dict over some of the keys
\* whose values are null or a digest
StoredChecksums ==
    {None} \cup {Some(d) : d \in UNION {[S -> {PyNone, OldDigest}] : S \in SUBSET ChecksumKeys}}

CacheInit ==
    /\ toggle \in BOOLEAN
    /\ test_mode \in BOOLEAN
    /\ \E ks \in KeyOptions : /\ STANDARD_CHECKSUM_KEY = ks[1]
                              /\ SMART_CHECKSUM_KEY = ks[2]
    /\ standard_fields \in StandardFieldOptions
    /\ smart_fields \in SmartFieldOptions
    /\ checksums \in StoredChecksums
    /\ db_checksums = checksums
    /\ tasks = <<>>
    /\ mcall = [name |-> "init", queue |-> FALSE, recalculate |-> FALSE,
                before |-> checksums, before_db |-> checksums, before_tasks |-> <<>>,
                effect |-> Effect(checksums, checksums, <<>>, RetNone, 0, 0, 0)]

CacheIdle ==
    /\ toggle = FALSE
    /\ test_mode = FALSE
    /\ STANDARD_CHECKSUM_KEY = Some("standard")
    /\ SMART_CHECKSUM_KEY = Some("smart")
    /\ standard_fields = PyDict(<<>>)
    /\ smart_fields = PyDict(<<>>)
    /\ checksums = None
    /\ db_checksums = None
    /\ tasks = <<>>
    /\ mcall = [name |-> "idle", queue |-> FALSE, recalculate |-> FALSE,
                before |-> None, before_db |-> None, before_tasks |-> <<>>,
                effect |-> Effect(None, None, <<>>, RetNone, 0, 0, 0)]

\* one call on the instance: e is what the call does
Call(name, queue, recalculate, e) ==
    /\ Len(e.q) <= MaxTasks
    /\ checksums' = e.cs
    /\ db_checksums' = e.db
    /\ tasks' = e.q
    /\ mcall' = [name |-> name, queue |-> queue, recalculate |-> recalculate,
                 before |-> checksums, before_db |-> db_checksums,
                 before_tasks |-> tasks, effect |-> e]
    /\ UNCHANGED <<toggle, test_mode, STANDARD_CHECKSUM_KEY, SMART_CHECKSUM_KEY,
                   standard_fields, smart_fields>>
    /\ UNCHANGED <<diffVars, serVars, logVars, raceVars>>

GetChecksums ==
    \E queue, recalculate \in BOOLEAN :
        Call("get_checksums", queue, recalculate, get_checksums(queue, recalculate))

SetChecksums == Call("set_checksums", FALSE, FALSE, set_checksums)

Checksum == Call("checksum", FALSE, FALSE, checksum)

GetAllChecksums ==
    Call("get_all_checksums", FALSE, FALSE,
         IF toggle /\ calculation_raises THEN Raises
         ELSE NoEffect(IF get_all_checksums = None THEN RetNone
                       ELSE RetDict(get_all_checksums[1])))

\* a worker takes the oldest task off the queue and runs it on the row
CalculateChecksumsTask ==
    /\ tasks # <<>>
    /\ Call("calculate_checksums", FALSE, FALSE,
            IF toggle /\ calculation_raises
            THEN [Raises EXCEPT !.q = Tail(tasks)]
            ELSE Effect(checksums, calculate_checksums(db_checksums), Tail(tasks), RetNone,
                        IF toggle THEN 1 ELSE 0, IF toggle THEN 1 ELSE 0, 0))

CacheNext ==
    \/ GetChecksums
    \/ SetChecksums
    \/ Checksum
    \/ GetAllChecksums
    \/ CalculateChecksumsTask

(***************************************************************************)
(* ChecksumChangelog. Each of its two differs is given by its verbosity    *)
(* and, for every key, what became of the key between the two sides; the   *)
(* differ's result and its maps follow from that as ChecksumDiff builds    *)
(* them.                                                                   *)
(***************************************************************************)
ConceptSeq == <<"a", "b">>

MappingSeq == <<"m", "n">>

ConceptKeys == {ConceptSeq[i] : i \in DOMAIN ConceptSeq}

MappingKeys == {MappingSeq[i] : i \in DOMAIN MappingSeq}

\* the keys of a differ's result, in the order prepare() inserts them
CategoryOrder ==
    <<"new", "removed", "retired", "changed", "smart_changed", "same", "smart_same">>

ignored_diffs == {"same", "smart_same"}

\* The categories that hold a key: on side 1 only; on side 2 only (which the
\* differ files under retired); on both sides with both digests different,
\* with the smart digest different, with both equal.
Places ==
    [new |-> {"new"}, retired |-> {"retired"}, changed |-> {"changed", "smart_changed"},
     smart_changed |-> {"smart_changed", "same"}, same |-> {"same", "smart_same"}]

ConceptPlaces == {"retired", "changed", "smart_changed", "same"}

MappingPlaces == {"new", "retired", "changed", "smart_changed"}

OnSide1(place) == place # "retired"

OnSide2(place) == place # "new"

\* ChecksumDiff.result of a processed differ d
diff_result(d) ==
    LET categories == {CategoryOrder[i] : i \in 1..(IF d.verbosity >= 1 THEN 7 ELSE 5)}
        values(K) == {k \in DOMAIN d.place : K \in Places[d.place[k]]}
    IN  [K \in categories |->
            IF d.verbosity = 2 /\ values(K) # {}
            THEN [total |-> Cardinality(values(K)), listed |-> TRUE, mnemonic |-> values(K)]
            ELSE [total |-> Cardinality(values(K)), listed |-> FALSE, mnemonic |-> {}]]

\* the position of a key in its sequence
IndexIn(seq, k) == CHOOSE i \in DOMAIN seq : seq[i] = k

\* the id of the row a side holds for a key
RowId(seq, side, k) == (side - 1) * Len(seq) + IndexIn(seq, k)

\* ChecksumDiff.get_db_id_for: the id of the side-1 row of the key if side 1
\* holds it, else of its side-2 row
get_db_id_for(d, seq, diff_key, identity) ==
    IF OnSide1(d.place[identity]) THEN RowId(seq, 1, identity) ELSE RowId(seq, 2, identity)

\* Concept.objects.filter(id=...).first()
Concept_first(id) ==
    LET k == ConceptSeq[((id - 1) % Len(ConceptSeq)) + 1]
    IN  [mnemonic |-> k, display_name |-> k, versioned_object_id |-> k]

\* the rows of the mappings the two sides hold: link[k] is the concept the
\* mapping k starts from and whether its rows carry from_concept_code
Mapping_rows(d, link) ==
    LET held == {p \in {1, 2} \X MappingKeys :
                    IF p[1] = 1 THEN OnSide1(d.place[p[2]]) ELSE OnSide2(d.place[p[2]])}
    IN  {[id |-> RowId(MappingSeq, p[1], p[2]), mnemonic |-> p[2],
          from_concept |-> link[p[2]].from_concept,
          from_concept_code |->
              IF link[p[2]].coded THEN Some(link[p[2]].from_concept) ELSE None] :
            p \in held}

\* Mapping.objects.filter(id=...).first()
Mapping_first(id) == CHOOSE r \in Mapping_objects : r.id = id

\* the rows of a queryset, by id
RECURSIVE RowsById(_)
RowsById(rows) ==
    IF rows = {} THEN <<>>
    ELSE LET r == CHOOSE x \in rows : \A y \in rows : x.id <= y.id
         IN  <<r>> \o RowsById(rows \ {r})

\* the keys of a listed category, in the order of the key sequence
Listed(res, K, seq) ==
    IF K \in DOMAIN res /\ res[K].listed
    THEN SelectSeq(seq, LAMBDA k : k \in res[K].mnemonic)
    ELSE <<>>

\* the keys of a result, in insertion order
ResultKeys(res) == SelectSeq(CategoryOrder, LAMBDA K : K \in DOMAIN res)

\* ChecksumChangelog.get_mapping_summary
get_mapping_summary(mapping, mapping_id) ==
    [id |-> IF mapping_id # None THEN mapping_id[1] ELSE mapping.mnemonic,
     from_concept |-> IF mapping.from_concept_code # None
                      THEN mapping.from_concept_code[1] ELSE mapping.from_concept]

\* lines 412-425 for one concept: st holds mappings_diff_summary and
\* traversed_mappings, keys are the keys of mappings_diff.result still to do
RECURSIVE attach_mappings(_, _, _)
attach_mappings(concept, st, keys) ==
    IF keys = <<>> THEN st
    ELSE LET mapping_diff_key == Head(keys)
             mapping_ids == Listed(diff_result(mappings_diff), mapping_diff_key, MappingSeq)
             mappings == {r \in Mapping_objects :
                             /\ r.from_concept = concept.versioned_object_id
                             /\ r.mnemonic \in {mapping_ids[i] : i \in DOMAIN mapping_ids}
                                                  \ st.traversed_mappings}
             rows == RowsById(mappings)
             st1 == IF mapping_diff_key \in ignored_diffs \/ mappings = {} THEN st
                    ELSE [mappings_diff_summary |->
                              Put(st.mappings_diff_summary, mapping_diff_key,
                                  [i \in DOMAIN rows |-> get_mapping_summary(rows[i], None)]),
                          traversed_mappings |->
                              st.traversed_mappings \cup {r.mnemonic : r \in mappings}]
         IN  attach_mappings(concept, st1, Tail(keys))

\* lines 404-428 for the concepts listed under `key`: acc holds
\* section_summary, traversed_concepts and traversed_mappings
RECURSIVE summarize_concepts(_, _, _)
summarize_concepts(key, ids, acc) ==
    IF ids = <<>> THEN acc
    ELSE LET concept_id == Head(ids)
             concept == Concept_first(get_db_id_for(concepts_diff, ConceptSeq, key, concept_id))
             st == attach_mappings(concept,
                       [mappings_diff_summary |-> EmptyDict,
                        traversed_mappings |-> acc.traversed_mappings],
                       ResultKeys(diff_result(mappings_diff)))
             summary == [id |-> concept_id, display_name |-> concept.display_name,
                         mappings |-> st.mappings_diff_summary]
         IN  IF concept_id \in acc.traversed_concepts
             THEN summarize_concepts(key, Tail(ids), acc)
             ELSE summarize_concepts(key, Tail(ids),
                      [section_summary |-> Put(acc.section_summary, concept_id, summary),
                       traversed_concepts |-> acc.traversed_concepts \cup {concept_id},
                       traversed_mappings |-> st.traversed_mappings])

\* lines 399-430: acc holds concepts_result and the two traversed sets, keys
\* are the keys of concepts_diff.result still to do
RECURSIVE first_pass(_, _)
first_pass(acc, keys) ==
    IF keys = <<>> THEN acc
    ELSE LET key == Head(keys)
             sec == summarize_concepts(key,
                        Listed(diff_result(concepts_diff), key, ConceptSeq),
                        [section_summary |-> EmptyDict,
                         traversed_concepts |-> acc.traversed_concepts,
                         traversed_mappings |-> acc.traversed_mappings])
         IN  IF key \in ignored_diffs THEN first_pass(acc, Tail(keys))
             ELSE first_pass(
                      [concepts_result |->
                           IF DOMAIN sec.section_summary # {}
                           THEN Put(acc.concepts_result, key, sec.section_summary)
                           ELSE acc.concepts_result,
                       traversed_concepts |-> sec.traversed_concepts,
                       traversed_mappings |-> sec.traversed_mappings],
                      Tail(keys))

concept_never_same(concept_id, same_concept_ids) == FALSE

\* line 447: concept_id in same_concept_ids
concept_is_same(concept_id, same_concept_ids) == concept_id \in same_concept_ids

\* lines 437-461 for the mappings listed under `key`: acc holds
\* section_summary, concepts_result and traversed_mappings
RECURSIVE place_mappings(_, _, _, _)
place_mappings(key, ids, same_concept_ids, acc) ==
    IF ids = <<>> THEN acc
    ELSE LET mapping_id == Head(ids)
             mapping == Mapping_first(get_db_id_for(mappings_diff, MappingSeq, key, mapping_id))
             from_concept_code == mapping.from_concept_code
             from_concept == mapping.from_concept
             concept_id == from_concept_code[1]
             changes == IF "same_with_mapping_changes" \in DOMAIN acc.concepts_result
                        THEN acc.concepts_result["same_with_mapping_changes"]
                        ELSE EmptyDict
             entry == IF concept_id \in DOMAIN changes THEN changes[concept_id]
                      ELSE [id |-> concept_id, display_name |-> from_concept,
                            mappings |-> EmptyDict]
             listed == IF key \in DOMAIN entry.mappings THEN entry.mappings[key] ELSE <<>>
             entry1 == [entry EXCEPT !.mappings =
                           Put(@, key, Append(listed,
                                   get_mapping_summary(mapping, Some(mapping_id))))]
             seen == [acc EXCEPT !.traversed_mappings = @ \cup {mapping_id}]
             acc1 == IF mapping_id \in acc.traversed_mappings THEN acc
                     ELSE IF from_concept_code # None
                     THEN IF concept_is_same(concept_id, same_concept_ids)
                          THEN [seen EXCEPT !.concepts_result =
                                   Put(@, "same_with_mapping_changes",
                                       Put(changes, concept_id, entry1))]
                          ELSE seen
                     ELSE [seen EXCEPT !.section_summary =
                              Put(@, mapping_id,
                                  get_mapping_summary(mapping, Some(mapping_id)))]
         IN  place_mappings(key, Tail(ids), same_concept_ids, acc1)

\* lines 432-463: acc holds concepts_result, mappings_result and
\* traversed_mappings
RECURSIVE second_pass(_, _, _)
second_pass(acc, same_concept_ids, keys) ==
    IF keys = <<>> THEN acc
    ELSE LET key == Head(keys)
             sec == place_mappings(key,
                        Listed(diff_result(mappings_diff), key, MappingSeq),
                        same_concept_ids,
                        [section_summary |-> EmptyDict,
                         concepts_result |-> acc.concepts_result,
                         traversed_mappings |-> acc.traversed_mappings])
         IN  IF key \in ignored_diffs THEN second_pass(acc, same_concept_ids, Tail(keys))
             ELSE second_pass(
                      [concepts_result |-> sec.concepts_result,
                       mappings_result |->
                           IF DOMAIN sec.section_summary # {}
                           THEN Put(acc.mappings_result, key, sec.section_summary)
                           ELSE acc.mappings_result,
                       traversed_mappings |-> sec.traversed_mappings],
                      same_concept_ids, Tail(keys))

\* concepts_diff.result['same'][identity] can be read: 'same' is a key of the
\* result and its value is a dict
same_is_listed ==
    /\ "same" \in DOMAIN diff_result(concepts_diff)
    /\ diff_result(concepts_diff)["same"].listed

\* ChecksumChangelog.process: the result, when line 431 does not raise. A
\* concept summary without a 'mappings' entry has the empty dict here.
changelog_process ==
    LET one == first_pass([concepts_result |-> EmptyDict, traversed_concepts |-> {},
                           traversed_mappings |-> {}],
                          ResultKeys(diff_result(concepts_diff)))
        two == second_pass([concepts_result |-> one.concepts_result,
                            mappings_result |-> EmptyDict,
                            traversed_mappings |-> one.traversed_mappings],
                           diff_result(concepts_diff)["same"].mnemonic,
                           ResultKeys(diff_result(mappings_diff)))
    IN  [k \in {"concepts", "mappings"} |->
            IF k = "concepts" THEN two.concepts_result ELSE two.mappings_result]

\* a concept that neither side of the concepts differ holds, of another source
OtherConcept == "z"

LinkOptions == [from_concept : ConceptKeys \cup {OtherConcept}, coded : BOOLEAN]

LogInit ==
    /\ concepts_diff \in [verbosity : {0, 1, 2}, place : [ConceptKeys -> ConceptPlaces]]
    /\ mappings_diff \in [verbosity : {0, 1, 2}, place : [MappingKeys -> MappingPlaces]]
    /\ \E link \in [MappingKeys -> LinkOptions] :
           Mapping_objects = Mapping_rows(mappings_diff, link)
    /\ changelog = EmptyDict
    /\ lcall = [name |-> "init", outcome |-> "none"]

LogIdle ==
    /\ concepts_diff = [verbosity |-> 0, place |-> EmptyDict]
    /\ mappings_diff = [verbosity |-> 0, place |-> EmptyDict]
    /\ Mapping_objects = {}
    /\ changelog = EmptyDict
    /\ lcall = [name |-> "idle", outcome |-> "none"]

\* ChecksumChangelog.process()
ChangelogProcess ==
    /\ IF same_is_listed
       THEN /\ changelog' = changelog_process
            /\ lcall' = [name |-> "process", outcome |-> "returned"]
       ELSE /\ changelog' = changelog
            /\ lcall' = [name |-> "process", outcome |-> "raised"]
    /\ UNCHANGED <<concepts_diff, mappings_diff, Mapping_objects>>
    /\ UNCHANGED <<diffVars, serVars, cacheVars, raceVars>>

(***************************************************************************)
(* Concurrent writers of one row: set_checksums() called on instances of   *)
(* the row, directly or by the queued task, each in the steps the code     *)
(* takes: load the instance, compute, save the column.                     *)
(***************************************************************************)
\* how many writers run concurrently
NWriters == 2

Writers == 1..NWriters

\* what set_checksums assigns to self.checksums on an instance that held
\* `instance`: the right-hand side does not read the attribute
writer_cached_checksums(instance) ==
    IF checksums_truthy(instance) /\ has_all_checksums(instance)
    THEN instance
    ELSE _calculate_checksums

writer_checksums(instance) == _calculate_checksums

RaceIdle ==
    /\ writers = <<>>
    /\ initial_db = None

RaceInit ==
    /\ toggle \in BOOLEAN
    /\ test_mode = FALSE
    /\ \E ks \in KeyOptions : /\ STANDARD_CHECKSUM_KEY = ks[1]
                              /\ SMART_CHECKSUM_KEY = ks[2]
    /\ standard_fields \in StandardFieldOptions
    /\ smart_fields \in SmartFieldOptions
    /\ db_checksums \in StoredChecksums
    /\ initial_db = db_checksums
    /\ checksums = db_checksums
    /\ tasks = <<>>
    /\ mcall = [name |-> "idle", queue |-> FALSE, recalculate |-> FALSE,
                before |-> None, before_db |-> None, before_tasks |-> <<>>,
                effect |-> Effect(None, None, <<>>, RetNone, 0, 0, 0)]
    /\ \E kinds \in [Writers -> {"sync", "queued"}] :
          writers = [w \in Writers |->
                        [kind |-> kinds[w], pc |-> "idle", checksums |-> None]]

RaceStep(w, pc, cs, db) ==
    /\ writers' = [writers EXCEPT ![w].pc = pc, ![w].checksums = cs]
    /\ db_checksums' = db
    /\ UNCHANGED <<toggle, test_mode, STANDARD_CHECKSUM_KEY, SMART_CHECKSUM_KEY,
                   standard_fields, smart_fields, checksums, tasks, mcall, initial_db>>
    /\ UNCHANGED <<diffVars, serVars, logVars>>

\* queue_checksum_calculation outside TEST_MODE: the task is put on the queue
ApplyAsync(w) ==
    /\ writers[w].kind = "queued" /\ writers[w].pc = "idle"
    /\ RaceStep(w, "queued", writers[w].checksums, db_checksums)

\* the instance set_checksums runs on is read from the row: by the caller
\* before a direct call, by the worker when it takes the task
Load(w) ==
    /\ \/ writers[w].kind = "queued" /\ writers[w].pc = "queued"
       \/ writers[w].kind = "sync" /\ writers[w].pc = "idle"
    /\ RaceStep(w, "loaded", db_checksums, db_checksums)

\* set_checksums up to the assignment of self.checksums
Calculate(w) ==
    /\ writers[w].pc = "loaded"
    /\ IF ~toggle THEN RaceStep(w, "done", writers[w].checksums, db_checksums)
       ELSE IF calculation_raises
            THEN RaceStep(w, "raised", writers[w].checksums, db_checksums)
            ELSE RaceStep(w, "assigned", writer_checksums(writers[w].checksums),
                          db_checksums)

\* self.save(update_fields=['checksums'])
Save(w) ==
    /\ writers[w].pc = "assigned"
    /\ RaceStep(w, "done", writers[w].checksums, writers[w].checksums)

RaceNext == \E w \in Writers : ApplyAsync(w) \/ Load(w) \/ Calculate(w) \/ Save(w)

InitCache == DiffIdle /\ SerIdle /\ CacheInit /\ LogIdle /\ RaceIdle

SpecCache == InitCache /\ [][CacheNext]_vars

InitSer == DiffIdle /\ SerInit /\ CacheIdle /\ LogIdle /\ RaceIdle

SpecSer == InitSer /\ [][SerNext]_vars

InitLog == DiffIdle /\ SerIdle /\ CacheIdle /\ LogInit /\ RaceIdle

SpecLog == InitLog /\ [][ChangelogProcess]_vars

InitRace == DiffIdle /\ SerIdle /\ RaceInit /\ LogIdle

SpecRace == InitRace /\ [][RaceNext]_vars

InitPartial == PartialInit /\ SerIdle /\ CacheIdle /\ LogIdle /\ RaceIdle

SpecPartial == InitPartial /\ [][Process]_vars

Init == DiffInit /\ SerIdle /\ CacheIdle /\ LogIdle /\ RaceIdle

Next == Process

Spec == Init /\ [][Next]_vars

(***************************************************************************)
(* What the two collections hold, read off the inputs themselves.          *)
(***************************************************************************)
Active1 == {r.mnemonic : r \in {x \in resources1 : ~x.retired}}

Active2 == {r.mnemonic : r \in {x \in resources2 : ~x.retired}}

Retired1 == {r.mnemonic : r \in {x \in resources1 : x.retired}}

Retired2 == {r.mnemonic : r \in {x \in resources2 : x.retired}}

ChecksumsOf(resources, k) == (CHOOSE r \in resources : r.mnemonic = k).checksums

\* process() has returned a result
Processed == call.name = "process" /\ call.outcome # "raised"

ExactlyOne(a, b, c) == (a /\ ~b /\ ~c) \/ (~a /\ b /\ ~c) \/ (~a /\ ~b /\ c)

\* C1: after process() every key active on side 1 or side 2 is in exactly one
\* of new, deleted and common, and a key active on side 2 only, not retired,
\* is counted under removed.
C1_Partition ==
    Processed =>
        /\ \A k \in Active1 \cup Active2 :
              ExactlyOne(k \in DOMAIN new, k \in DOMAIN deleted, k \in DOMAIN common)
        /\ \A k \in Active2 \ (Active1 \cup Retired1) :
              k \in DOMAIN deleted /\ result["removed"].total >= 1

\* C2: retired holds exactly the keys retired on side 2 and not retired on
\* side 1, and the result counts them.
C2_RetiredExact ==
    Processed =>
        /\ DOMAIN retired = Retired2 \ Retired1
        /\ result["retired"].total = Cardinality(Retired2 \ Retired1)

\* C3: retired and deleted are disjoint; deleted is the side-2 active keys not
\* active on side 1, minus the retired keys.
C3_DeletedDisjointRetired ==
    Processed =>
        /\ DOMAIN retired \cap DOMAIN deleted = {}
        /\ DOMAIN deleted = (Active2 \ Active1) \ DOMAIN retired
        /\ result["removed"].total = Cardinality((Active2 \ Active1) \ DOMAIN retired)

C3_Witness ==
    /\ Processed
    /\ Active2 \ Active1 # {}
    /\ DOMAIN retired # {}
    /\ Active1 \cap Active2 # {}

\* C4: for every key active on both sides, changed iff the standard checksums
\* differ and smart_changed iff the smart checksums differ, each on its own; at
\* verbosity >= 1 the key is in exactly one of changed/same and one of
\* smart_changed/smart_same; at verbosity 0 same and smart_same stay empty.
C4_IndependentComparison ==
    Processed =>
        /\ \A k \in Active1 \cap Active2 :
              LET c1 == ChecksumsOf(resources1, k)
                  c2 == ChecksumsOf(resources2, k)
              IN  /\ k \in DOMAIN changed_standard <=> c1.standard # c2.standard
                  /\ k \in DOMAIN changed_smart <=> c1.smart # c2.smart
                  /\ verbosity >= 1 =>
                        /\ k \in DOMAIN same <=> k \notin DOMAIN changed_standard
                        /\ k \in DOMAIN same_smart <=> k \notin DOMAIN changed_smart
        /\ verbosity = 0 => DOMAIN same = {} /\ DOMAIN same_smart = {}
        /\ result["changed"].total = Cardinality(DOMAIN changed_standard)
        /\ result["smart_changed"].total = Cardinality(DOMAIN changed_smart)

C4_Witness ==
    /\ Processed
    /\ verbosity >= 1
    /\ \E k \in Active1 \cap Active2 :
          /\ ChecksumsOf(resources1, k).standard = ChecksumsOf(resources2, k).standard
          /\ ChecksumsOf(resources1, k).smart # ChecksumsOf(resources2, k).smart
          /\ k \in DOMAIN same /\ k \in DOMAIN changed_smart

(***************************************************************************)
(* Relations between values that the claims about the pure functions use   *)
(***************************************************************************)
\* the functions c with c[i] \in S[i] for each i
Choices(S) ==
    {c \in [DOMAIN S -> UNION {S[i] : i \in DOMAIN S}] : \A i \in DOMAIN S : c[i] \in S[i]}

\* v with the key insertion order of each of its mappings, nested ones included,
\* permuted in every way
RECURSIVE Reorderings(_)
Reorderings(v) ==
    IF v.t = "dict"
    THEN {PyDict([i \in 1..Len(v.p) |-> Pair(v.p[perm[i]].k, c[perm[i]])]) :
            perm \in Permutations(1..Len(v.p)),
            c \in Choices([i \in 1..Len(v.p) |-> Reorderings(v.p[i].v)])}
    ELSE IF v.t = "list"
    THEN {PyList(c) : c \in Choices([i \in 1..Len(v.e) |-> Reorderings(v.e[i])])}
    ELSE {v}

KeySet(v) == {v.p[i].k : i \in 1..Len(v.p)}

\* a value as Python's == sees it: a dict is its key -> value mapping, whatever
\* the insertion order
RECURSIVE Norm(_)
Norm(v) ==
    IF v.t = "dict"
    THEN [t |-> "dict", m |-> [k \in KeySet(v) |-> Norm(dict_get(v, k))]]
    ELSE IF v.t = "list"
    THEN [t |-> "list", m |-> [i \in 1..Len(v.e) |-> Norm(v.e[i])]]
    ELSE [t |-> v.t, m |-> <<v.b, v.n, v.c>>]

\* a value up to the order of the elements of its sequences and up to wrapping
\* a value in a one-element sequence
RECURSIVE Canon(_)
Canon(v) ==
    IF v.t = "dict"
    THEN [t |-> "dict", m |-> [k \in KeySet(v) |-> Canon(dict_get(v, k))]]
    ELSE IF v.t = "list"
    THEN IF Len(v.e) = 1 THEN Canon(v.e[1])
         ELSE LET elems == [i \in 1..Len(v.e) |-> Canon(v.e[i])]
              IN  [t |-> "list",
                   m |-> [x \in {elems[i] : i \in 1..Len(elems)} |->
                            Cardinality({i \in 1..Len(elems) : elems[i] = x})]]
    ELSE [t |-> v.t, m |-> <<v.b, v.n, v.c>>]

\* what a field mapping says once the respects cleanup is neutral to are set
\* aside: null values, retired false, is_active true, extras keys that start
\* with a double underscore, extras empty
StripInternal(extras) ==
    IF extras.t = "dict"
    THEN PyDict(SelectSeq(extras.p, LAMBDA q : ~startswith__(q.k)))
    ELSE extras

NeutralCore(fields) ==
    LET neutral(f) ==
            \/ f.v.t = "none"
            \/ f.k = K_retired /\ f.v = PyBool(FALSE)
            \/ f.k = K_is_active /\ f.v = PyBool(TRUE)
            \/ f.k = K_extras /\ StripInternal(f.v) = PyDict(<<>>)
        said == {fields.p[i] : i \in {j \in 1..Len(fields.p) : ~neutral(fields.p[j])}}
    IN  [k \in {f.k : f \in said} |->
            LET f == CHOOSE x \in said : x.k = k
            IN  IF k = K_extras THEN Norm(StripInternal(f.v)) ELSE Norm(f.v)]

\* C5: _serialize of a mapping, and so its digest, is the same for every
\* insertion order of its keys and of the keys of the mappings nested in it.
C5_OrderIndependence ==
    op = "_serialize" /\ data.t = "dict" =>
        \A m \in Reorderings(data) :
            /\ PyStr(_serialize(m)) = out
            /\ generate(m) = generate(data)

C5_Witness ==
    /\ op = "_serialize"
    /\ data.t = "dict"
    /\ Len(data.p) >= 3
    /\ sorted_keys(data) # [i \in 1..Len(data.p) |-> data.p[i].k]
    /\ \E i \in 1..Len(data.p) : data.p[i].v.t = "dict" /\ Len(data.p[i].v.p) >= 2

\* C6: _serialize([x]) = _serialize(x) for every x, a one-element sequence
\* included.
C6_SingletonUnwrap ==
    op = "_serialize" /\ data.t = "list" /\ Len(data.e) = 1 =>
        out = PyStr(_serialize(data.e[1]))

\* C7: _cleanup(_cleanup(f)) = _cleanup(f) for every field mapping f.
C7_CleanupIdempotent ==
    op = "_cleanup" /\ data.t = "dict" => _cleanup(data) = data

\* C8: two field mappings that differ only in cleanup-neutral respects have the
\* same generate_checksum.
C8_NeutralRespects ==
    op = "generate_checksum" /\ data \in FieldMappings =>
        \A other \in FieldMappings :
            NeutralCore(other) = NeutralCore(data) => generate_checksum(other) = out

\* C9 as claimed: field mappings whose cleaned-up forms differ in any field
\* value have different serializations and digests.
C9_DifferentFieldsDifferentChecksum ==
    op = "generate_checksum" /\ data \in FieldMappings =>
        \A other \in FieldMappings :
            Norm(_cleanup(other)) # Norm(_cleanup(data)) =>
                /\ _serialize(_cleanup(other)) # _serialize(_cleanup(data))
                /\ generate_checksum(other) # out

\* C9 as amended: field mappings whose cleaned-up forms differ by more than the
\* order of a sequence's elements or the wrapping of a value in a one-element
\* sequence have different serializations and digests; equal digests imply
\* cleaned-up forms equal up to those two respects.
C9_DifferentUpToCanon ==
    op = "generate_checksum" /\ data \in FieldMappings =>
        \A other \in FieldMappings :
            Canon(_cleanup(other)) # Canon(_cleanup(data)) =>
                /\ _serialize(_cleanup(other)) # _serialize(_cleanup(data))
                /\ generate_checksum(other) # out

C9_Witness ==
    /\ op = "generate_checksum"
    /\ data \in FieldMappings
    /\ \E other \in FieldMappings :
          /\ Canon(_cleanup(other)) # Canon(_cleanup(data))
          /\ KeySet(_cleanup(other)) # KeySet(_cleanup(data))
          /\ Len(_cleanup(other).p) = Len(_cleanup(data).p)
          /\ generate_checksum(other) # out

\* C10: generate_checksum_from_many of a non-list x or of [x] is
\* generate_checksum(x); of a list of two or more values it is
\* Checksum.generate of the list of the elements' digests.
C10_CombineLaw ==
    op = "generate_checksum_from_many" =>
        IF data.t # "list" THEN out = generate_checksum(data)
        ELSE IF Len(data.e) = 1 THEN out = generate_checksum(data.e[1])
        ELSE Len(data.e) >= 2 =>
                out = generate(PyList([i \in 1..Len(data.e) |-> generate_checksum(data.e[i])]))

C10_Witness ==
    /\ op = "generate_checksum_from_many"
    /\ data.t = "list"
    /\ Len(data.e) >= 2
    /\ data.e[1].t = "dict"
    /\ data.e[1] # data.e[2]


(***************************************************************************)
(* The cache of one instance: what a call found and what it left.          *)
(***************************************************************************)
ConfiguredKeys ==
    {k \in ChecksumKeys : STANDARD_CHECKSUM_KEY = Some(k) \/ SMART_CHECKSUM_KEY = Some(k)}

\* every configured key is present in the cached dict
Complete(cs) == cs # None /\ ConfiguredKeys \subseteq DOMAIN cs[1]

\* the call left the instance, its row and the queue as it found them
Untouched ==
    /\ checksums = mcall.before
    /\ db_checksums = mcall.before_db
    /\ tasks = mcall.before_tasks
    /\ mcall.effect.computed = 0
    /\ mcall.effect.saved = 0
    /\ mcall.effect.enqueued = 0

\* C11: with the toggle on, get_checksums(recalculate=False) on an instance
\* whose cached dict holds every configured key returns that dict and, for
\* either value of queue, recomputes nothing, writes nothing and enqueues
\* nothing: the row's checksums are what they were.
C11_CompleteCacheIsReturned ==
    (toggle /\ mcall.name = "get_checksums" /\ ~mcall.recalculate /\ Complete(mcall.before))
        => /\ mcall.effect.ret = RetDict(mcall.before[1])
           /\ Untouched

\* get_checksums(queue=True) answered from a complete cache whose digests are
\* not the ones a recomputation would give
C11_Witness ==
    /\ toggle /\ mcall.name = "get_checksums" /\ ~mcall.recalculate /\ mcall.queue
    /\ Complete(mcall.before)
    /\ mcall.before[1] # all_checksums
    /\ mcall.effect.ret = RetDict(mcall.before[1])

\* get_checksums(queue=True) that does not answer from a complete cache
QueuedCall ==
    /\ toggle /\ mcall.name = "get_checksums" /\ mcall.queue
    /\ (mcall.recalculate \/ ~Complete(mcall.before))

\* C12: with the toggle on and outside test mode, get_checksums(queue=True) on
\* an instance whose cache is not complete, or with recalculate=True, puts
\* exactly one calculate_checksums task for (type name, id) on the queue and
\* returns the cached dict as it is (the empty dict when nothing is cached);
\* it computes nothing and writes nothing itself.
C12_QueueEnqueuesOnce ==
    (QueuedCall /\ ~test_mode)
        => /\ tasks = Append(mcall.before_tasks, <<"ChecksumModel", 1>>)
           /\ mcall.effect.enqueued = 1
           /\ mcall.effect.ret =
                  RetDict(IF mcall.before = None THEN EmptyDict ELSE mcall.before[1])
           /\ checksums = mcall.before
           /\ db_checksums = mcall.before_db
           /\ mcall.effect.computed = 0
           /\ mcall.effect.saved = 0

\* a queued call on an instance with a stale partial cache, which it returns
C12_Witness ==
    /\ QueuedCall /\ ~test_mode /\ ~mcall.recalculate
    /\ mcall.before # None
    /\ DOMAIN mcall.before[1] = {"standard"}
    /\ mcall.effect.ret = RetDict(mcall.before[1])
    /\ Len(tasks) = 1

\* a queued call with recalculate=True on an instance with nothing cached
C12_WitnessNoneCached ==
    /\ QueuedCall /\ ~test_mode /\ mcall.recalculate
    /\ mcall.before = None
    /\ mcall.effect.ret = RetDict(EmptyDict)
    /\ Len(tasks) = 2

\* C13: with the toggle on, a set_checksums() that returns recomputes the checksum of every
\* configured kind from the instance's fields and saves the new dict in place
\* of whatever was cached (nothing, a partial dict or a complete one):
\* afterwards has_all_checksums() is true and the instance and its row hold
\* exactly what get_all_checksums() returns.
C13_SetChecksumsCompletes ==
    (toggle /\ mcall.name = "set_checksums" /\ ~mcall.effect.raised)
        => /\ checksums = get_all_checksums
           /\ db_checksums = checksums
           /\ DOMAIN checksums[1] = ConfiguredKeys
           /\ has_all_checksums(checksums)
           /\ mcall.effect.computed = 1
           /\ mcall.effect.saved = 1

\* set_checksums() on an instance whose cache held one stale digest only
C13_Witness ==
    /\ toggle /\ mcall.name = "set_checksums" /\ ~mcall.effect.raised
    /\ mcall.before # None
    /\ ~Complete(mcall.before)
    /\ OldDigest \in {mcall.before[1][k] : k \in DOMAIN mcall.before[1]}
    /\ Complete(checksums)
    /\ checksums # mcall.before

\* set_checksums() on an instance whose column was null
C13_WitnessAbsent ==
    /\ toggle /\ mcall.name = "set_checksums"
    /\ mcall.before = None
    /\ Complete(checksums)

\* set_checksums() on an instance whose cache was complete but stale
C13_WitnessComplete ==
    /\ toggle /\ mcall.name = "set_checksums"
    /\ Complete(mcall.before)
    /\ checksums # mcall.before

\* C14: with the toggle off, get_checksums (whatever queue and recalculate
\* are), set_checksums, the checksum property and get_all_checksums all hand
\* back None and do nothing else: no computation, no task, no write, the
\* instance and its row as they were, whatever was cached.
C14_ToggleOffIsInert ==
    (~toggle /\ mcall.name \in {"get_checksums", "set_checksums", "checksum",
                                "get_all_checksums"})
        => /\ mcall.effect.ret = RetNone
           /\ Untouched

\* the checksum property read with the toggle off on an instance that has a
\* standard digest cached
C14_Witness ==
    /\ ~toggle /\ mcall.name = "checksum"
    /\ standard_of(mcall.before) = OldDigest
    /\ mcall.effect.ret = RetNone

\* get_checksums(queue=True, recalculate=True) with the toggle off on an
\* instance with nothing cached
C14_WitnessQueued ==
    /\ ~toggle /\ mcall.name = "get_checksums" /\ mcall.queue /\ mcall.recalculate
    /\ mcall.before = None
    /\ tasks = <<>>

\* C15: with the toggle on, the checksum property of a type that has a
\* standard kind returns the cached standard digest as it is, computing and
\* writing nothing, when one is cached; in every other cache state (null
\* column, empty dict, partial dict, null standard value) it computes
\* synchronously and returns the newly computed standard digest.
C15_ChecksumProperty ==
    (toggle /\ mcall.name = "checksum" /\ STANDARD_CHECKSUM_KEY # None
            /\ ~mcall.effect.raised)
        => IF Truthy(standard_of(mcall.before))
           THEN /\ mcall.effect.ret = RetValue(standard_of(mcall.before))
                /\ Untouched
           ELSE /\ mcall.effect.computed = 1
                /\ mcall.effect.ret = RetValue(_calculate_standard_checksum)

(***************************************************************************)
(* The result of the differ                                                *)
(***************************************************************************)
BaseCategories == {"new", "removed", "retired", "changed", "smart_changed"}

SameCategories == {"same", "smart_same"}

\* the entries a category of the result is built from
CategoryKeys(k) ==
    CASE k = "new" -> DOMAIN new
      [] k = "removed" -> DOMAIN deleted
      [] k = "retired" -> DOMAIN retired
      [] k = "changed" -> DOMAIN changed_standard
      [] k = "smart_changed" -> DOMAIN changed_smart
      [] k = "same" -> DOMAIN same
      [] OTHER -> DOMAIN same_smart

\* C16: the shape of the result is fixed by the verbosity. At 0 its keys are
\* exactly new, removed, retired, changed and smart_changed, each the count
\* of its category; at 1 same and smart_same are there too, all counts; at 2
\* every non-empty category is a dict of total and the list of its keys, with
\* total the number of keys listed, and every empty category is the count 0.
C16_ResultShape ==
    Processed =>
        /\ DOMAIN result = IF verbosity = 0 THEN BaseCategories
                           ELSE BaseCategories \cup SameCategories
        /\ \A k \in DOMAIN result :
              /\ result[k].total = Cardinality(CategoryKeys(k))
              /\ IF verbosity = 2 /\ result[k].total > 0
                 THEN /\ result[k].listed
                      /\ result[k].mnemonic = CategoryKeys(k)
                      /\ result[k].total = Cardinality(result[k].mnemonic)
                 ELSE ~result[k].listed

\* a result at verbosity 2 with a listed category and an empty one
C16_Witness ==
    /\ Processed
    /\ verbosity = 2
    /\ result["changed"].listed /\ result["changed"].total = 1
    /\ ~result["new"].listed /\ result["new"].total = 0
    /\ result["same"].listed

\* a result at verbosity 1: seven counts, one of them not zero
C16_WitnessCounts ==
    /\ Processed
    /\ verbosity = 1
    /\ result["smart_same"].total = 2
    /\ ~result["smart_same"].listed

\* C17: process() is idempotent. Called again without refresh it returns the
\* result it has, recomputing nothing; called with refresh=True it clears the
\* result and recomputes, and what it then returns is what the differ
\* returned when it was fresh: no category keeps or gains entries.
C17_ProcessIdempotent ==
    [][(Processed /\ call'.name = "process")
        => /\ result' = result
           /\ same' = same /\ same_smart' = same_smart
           /\ changed_standard' = changed_standard /\ changed_smart' = changed_smart
           /\ call'.again
           /\ call'.outcome = IF call'.refresh THEN "computed" ELSE "cached"]_vars

\* process(refresh=True) has recomputed the result of a differ that had one,
\* with something in changed and in same
C17_Witness ==
    /\ call.name = "process" /\ call.refresh /\ call.again
    /\ call.outcome = "computed"
    /\ verbosity = 2
    /\ result["changed"].total >= 1
    /\ result["same"].total >= 1

\* a resource that lacks one of the two checksum keys
Lacking(r) == ~({"standard", "smart"} \subseteq DOMAIN r.checksums)

\* a key active on both sides one of whose two resources lacks a key
CommonLacking ==
    \E k \in Active1 \cap Active2 :
        \E r \in resources1 \cup resources2 : r.mnemonic = k /\ ~r.retired /\ Lacking(r)

\* C20 as stated: process() raises whenever a resource of either collection
\* lacks a checksum key, be its key in common, new, removed or retired.
C20_RaisesOnAnyMissingKey ==
    (call.name = "process" /\ \E r \in resources1 \cup resources2 : Lacking(r))
        => call.outcome = "raised"

\* C20: process() raises exactly when a key active on both sides has, on
\* either side, a resource that lacks a checksum key; a resource lacking a
\* key whose identity is active on one side only, or which is retired, is
\* never looked at and process() returns a result.
C20_RaisesOnCommonMissingKey ==
    call.name = "process" => (call.outcome = "raised" <=> CommonLacking)

\* process() raised on a common key while another resource, on one side
\* only, lacks a key too
C20_Witness ==
    /\ call.name = "process" /\ call.outcome = "raised"
    /\ CommonLacking
    /\ \E r \in resources1 \cup resources2 :
          Lacking(r) /\ r.mnemonic \notin Active1 \cap Active2

\* process() returned a result although a resource active on one side only
\* lacks a key
C20_WitnessReturned ==
    /\ Processed
    /\ \E r \in resources1 \cup resources2 : Lacking(r) /\ ~r.retired
    /\ DOMAIN result # {}

(***************************************************************************)
(* The changelog: where a mapping and a concept are reported               *)
(***************************************************************************)
Returned == lcall.name = "process" /\ lcall.outcome = "returned"

\* the non-same categories of the mappings diff that list the mapping m
ListedUnder(m) ==
    {K \in DOMAIN diff_result(mappings_diff) \ ignored_diffs :
        /\ diff_result(mappings_diff)[K].listed
        /\ m \in diff_result(mappings_diff)[K].mnemonic}

\* the first of them in the order of the result
FirstListedUnder(m) ==
    CategoryOrder[CHOOSE i \in DOMAIN CategoryOrder :
                     /\ CategoryOrder[i] \in ListedUnder(m)
                     /\ \A j \in 1..(i - 1) : CategoryOrder[j] \notin ListedUnder(m)]

\* the concept the rows of the mapping m start from
Owner(m) == (CHOOSE r \in Mapping_objects : r.mnemonic = m).from_concept

Coded(m) == (CHOOSE r \in Mapping_objects : r.mnemonic = m).from_concept_code # None

SameConcepts ==
    IF same_is_listed THEN diff_result(concepts_diff)["same"].mnemonic ELSE {}

\* the summaries of the mapping m under a concept: section, concept,
\* mappings category, position in the list
ReportsUnderConcepts(m) ==
    {p \in (DOMAIN changelog["concepts"]) \X ConceptKeys \X
           (DOMAIN diff_result(mappings_diff)) \X (1..(2 * Len(MappingSeq))) :
        /\ p[2] \in DOMAIN changelog["concepts"][p[1]]
        /\ p[3] \in DOMAIN changelog["concepts"][p[1]][p[2]].mappings
        /\ p[4] \in DOMAIN changelog["concepts"][p[1]][p[2]].mappings[p[3]]
        /\ changelog["concepts"][p[1]][p[2]].mappings[p[3]][p[4]].id = m}

\* the top-level mappings categories that report the mapping m
ReportsTopLevel(m) ==
    {K \in DOMAIN changelog["mappings"] : m \in DOMAIN changelog["mappings"][K]}

\* C18 as stated: a mapping listed in a non-same category K of the mappings
\* diff whose concept is in the same set of the concepts diff is reported
\* under concepts.same_with_mapping_changes[concept].mappings[K] and not
\* under the top-level mappings[K].
C18_SameConceptMappingChanges ==
    Returned =>
        \A m \in MappingKeys : \A K \in ListedUnder(m) :
            Owner(m) \in SameConcepts
                => /\ <<"same_with_mapping_changes", Owner(m), K>>
                          \in {<<p[1], p[2], p[3]>> : p \in ReportsUnderConcepts(m)}
                   /\ K \notin ReportsTopLevel(m)

\* the concept is in same and in no other category of the concepts diff
OnlySame(c) == c \in DOMAIN concepts_diff.place /\ concepts_diff.place[c] = "same"

\* C18: a mapping whose rows carry from_concept_code, listed in non-same
\* categories of the mappings diff, whose concept is in the same set of the
\* concepts diff and in none of its other categories, is reported once,
\* under concepts.same_with_mapping_changes[concept].mappings[K] for the
\* first category K that lists it, and under no top-level mappings category.
C18_UnvisitedSameConceptMappingChanges ==
    Returned =>
        \A m \in MappingKeys :
            (ListedUnder(m) # {} /\ Coded(m) /\ Owner(m) \in SameConcepts
             /\ OnlySame(Owner(m)))
                => /\ {<<p[1], p[2], p[3]>> : p \in ReportsUnderConcepts(m)}
                          = {<<"same_with_mapping_changes", Owner(m), FirstListedUnder(m)>>}
                   /\ Cardinality(ReportsUnderConcepts(m)) = 1
                   /\ ReportsTopLevel(m) = {}

\* a changed mapping of an unchanged concept, reported under
\* same_with_mapping_changes
C18_Witness ==
    /\ Returned
    /\ \E m \in MappingKeys :
          /\ mappings_diff.place[m] = "changed"
          /\ Coded(m) /\ OnlySame(Owner(m))
          /\ <<"same_with_mapping_changes", Owner(m), "changed", 1>>
                 \in ReportsUnderConcepts(m)

\* C19: in one run of process() nothing is reported twice: every mapping key
\* has at most one summary in the whole result, whatever the number of
\* categories that list it and whichever pass could place it, and every
\* concept key is summarized under at most one concepts category.
C19_ReportedOnce ==
    Returned =>
        /\ \A m \in MappingKeys :
              Cardinality(ReportsUnderConcepts(m)) + Cardinality(ReportsTopLevel(m)) <= 1
        /\ \A c \in ConceptKeys :
              Cardinality({K \in DOMAIN changelog["concepts"] :
                              c \in DOMAIN changelog["concepts"][K]}) <= 1

\* every resource of the two collections is of a type that defines the
\* standard kind only: its checksums hold that key and no other
StandardOnlyCollections ==
    \A r \in resources1 \cup resources2 : DOMAIN r.checksums = {"standard"}

\* C21 (the differ): two collections of resources of a type that defines
\* one checksum kind only are diffed without an error, and every key active
\* on both sides is classified by that kind: changed when the two digests
\* differ, same (when same is kept) when they are equal.
C21_OneKindDiffCompletes ==
    (call.name = "process" /\ StandardOnlyCollections)
        => /\ call.outcome # "raised"
           /\ \A k \in Active1 \cap Active2 :
                 IF ChecksumsOf(resources1, k)["standard"] # ChecksumsOf(resources2, k)["standard"]
                 THEN k \in DOMAIN changed_standard
                 ELSE include_same => k \in DOMAIN same

\* C21 (the cache): for a type that defines one kind only, a cached dict
\* holding the defined key counts as complete, and set_checksums stores the
\* defined key and no other.
C21_OneKindCache ==
    (toggle /\ Cardinality(ConfiguredKeys) = 1)
        => /\ (checksums # None /\ ConfiguredKeys \subseteq DOMAIN checksums[1])
                  => has_all_checksums(checksums)
           /\ (mcall.name = "set_checksums" /\ ~mcall.effect.raised)
                  => DOMAIN checksums[1] = ConfiguredKeys

\* C22: a call whose checksum computation raises (set_checksums, get_checksums
\* on either path, the checksum property, get_all_checksums, or the queued
\* task when it runs) leaves the checksums of the instance and of its row
\* exactly as they were before the call.
C22_FailureLeavesLastGood ==
    mcall.effect.raised
        => /\ checksums = mcall.before
           /\ db_checksums = mcall.before_db

\* set_checksums() on a cached instance raises in the smart checksum, after
\* the standard one could be computed
C22_Witness ==
    /\ mcall.name = "set_checksums" /\ mcall.effect.raised
    /\ mcall.before # None /\ mcall.before_db # None
    /\ STANDARD_CHECKSUM_KEY # None /\ ~standard_raises
    /\ SMART_CHECKSUM_KEY # None /\ smart_raises


AllFinished == \A w \in Writers : writers[w].pc \in {"done", "raised"}

\* C23: the fields of the row do not change.  However the steps of direct
\* set_checksums() calls and of queued recomputations interleave, once all
\* of them have finished the checksums column holds what one set_checksums()
\* stores (what it held before, when the toggle is off or the computation
\* raises), and at no moment does it hold anything but that or its first
\* value.
C23_LastWriteIsCorrect ==
    writers # <<>>
        => LET stored == IF toggle /\ ~calculation_raises
                         THEN _calculate_checksums ELSE initial_db
           IN  /\ db_checksums \in {initial_db, stored}
               /\ AllFinished => db_checksums = stored

\* a direct call and a queued one have both saved over a stale complete cache
C23_Witness ==
    /\ writers # <<>> /\ AllFinished /\ toggle /\ ~calculation_raises
    /\ \E v, w \in Writers : /\ writers[v].kind = "sync"
                             /\ writers[w].kind = "queued"
                             /\ writers[v].pc = "done" /\ writers[w].pc = "done"
    /\ initial_db # None /\ has_all_checksums(initial_db)
    /\ initial_db # db_checksums

\* C24: whatever the verbosity of the two processed differs, and whether or
\* not the concepts differ found concepts that are the same, process()
\* returns and leaves a result whose keys are exactly 'concepts' and
\* 'mappings'.
C24_ProcessAlwaysReturns ==
    lcall.name = "process"
        => /\ lcall.outcome = "returned"
           /\ DOMAIN changelog = {"concepts", "mappings"}

\* C25: process() loses no change of a mapping: every mapping key that a
\* verbosity-2 mappings diff lists in a category other than same and
\* smart_same has at least one summary in the result, under a concept of a
\* concepts category, under same_with_mapping_changes or in a top-level
\* mappings category; so has a mapping whose rows carry the code of a concept
\* that the concepts diff lists neither as same nor in any other category.
C25_NoMappingChangeLost ==
    Returned =>
        \A m \in MappingKeys :
            ListedUnder(m) # {}
                => ReportsUnderConcepts(m) # {} \/ ReportsTopLevel(m) # {}

====
